---- MODULE Spec2Model ----
(***************************************************************************)
(* Model of the CFO Copilot core: the question interpreter of              *)
(* agent/planner.py and the metric engine of agent/tools.py.               *)
(*                                                                         *)
(* Text is a sequence of one-character strings, and the regular            *)
(* expressions of the planner are evaluated on it character by character.  *)
(* Money is fixed point: an amount is a whole number of currency units, a  *)
(* rate is a whole number of 1/RateScale, and a normalized amount is       *)
(* amount * rate, in 1/RateScale of a dollar.  A quotient (a percentage, a *)
(* number of months) is an exact fraction <<numerator, denominator>> in    *)
(* lowest terms with a positive denominator.                               *)
(***************************************************************************)
EXTENDS Integers, Sequences, FiniteSets, TLC

VARIABLES pc, q, fallback, dfs, args, result, calls

vars == <<pc, q, fallback, dfs, args, result, calls>>

\* Python's None where a dict or a figure is expected
None == [none |-> TRUE]

\* Python's None where a year or a month is expected (neither is ever negative)
NoneInt == 0 - 1

(***************************************************************************)
(* Characters and string helpers                                           *)
(***************************************************************************)
UpperChars == <<"A","B","C","D","E","F","G","H","I","J","K","L","M",
                "N","O","P","Q","R","S","T","U","V","W","X","Y","Z">>

LowerChars == <<"a","b","c","d","e","f","g","h","i","j","k","l","m",
                "n","o","p","q","r","s","t","u","v","w","x","y","z">>

DigitChars == <<"0","1","2","3","4","5","6","7","8","9">>

Range(s) == {s[i] : i \in DOMAIN s}

UpperSet == Range(UpperChars)

LowerSet == Range(LowerChars)

DigitSet == Range(DigitChars)

WordSet == LowerSet \cup UpperSet \cup DigitSet \cup {"_"}

SpaceSet == {" ", "\t", "\n", "\r"}

LowerOf == [c \in UpperSet |-> LowerChars[CHOOSE i \in DOMAIN UpperChars : UpperChars[i] = c]]

UpperOf == [c \in LowerSet |-> UpperChars[CHOOSE i \in DOMAIN LowerChars : LowerChars[i] = c]]

DigitOf == [c \in DigitSet |-> (CHOOSE i \in DOMAIN DigitChars : DigitChars[i] = c) - 1]

LowerChar(c) == IF c \in UpperSet THEN LowerOf[c] ELSE c

UpperChar(c) == IF c \in LowerSet THEN UpperOf[c] ELSE c

\* str.lower()
RECURSIVE Lower(_)
Lower(t) == IF t = <<>> THEN <<>> ELSE <<LowerChar(Head(t))>> \o Lower(Tail(t))

\* str.upper()
RECURSIVE Upper(_)
Upper(t) == IF t = <<>> THEN <<>> ELSE <<UpperChar(Head(t))>> \o Upper(Tail(t))

\* int(digits)
DigitVal(c) == DigitOf[c]

RECURSIVE ToInt(_)
ToInt(ds) ==
  IF ds = <<>> THEN 0
  ELSE 10 * ToInt(SubSeq(ds, 1, Len(ds) - 1)) + DigitVal(ds[Len(ds)])

\* the regular expression classes \s, \d and . (every character but the
\* newline): the characters of the class, or those outside it
SpaceClass == [chars |-> SpaceSet, negated |-> FALSE]

DigitClass == [chars |-> DigitSet, negated |-> FALSE]

DotClass == [chars |-> {"\n"}, negated |-> TRUE]

InClass(cls, c) == (c \in cls.chars) # cls.negated

\* \w
IsWord(c) == c \in WordSet

(***************************************************************************)
(* A regular expression is evaluated as the set of positions where a match *)
(* that started in S can end; a position is the index of the next          *)
(* character to read, 1..Len(t)+1.  re.search succeeds when the set from   *)
(* all the start positions is not empty.                                   *)
(***************************************************************************)
Positions(t) == 1..(Len(t) + 1)

MatchAt(lit, t, i) ==
  /\ i + Len(lit) - 1 <= Len(t)
  /\ \A k \in 1..Len(lit) : t[i + k - 1] = lit[k]

\* a literal
LitEnds(lit, t, S) == {i + Len(lit) : i \in {s \in S : MatchAt(lit, t, s)}}

\* C{lo,hi}
RepEnds(cls, lo, hi, t, S) ==
  UNION {{e \in (s + lo)..(s + hi) : e <= Len(t) + 1 /\ \A k \in s..(e - 1) : InClass(cls, t[k])} :
         s \in S}

\* C*
StarEnds(cls, t, S) == RepEnds(cls, 0, Len(t), t, S)

\* C+
PlusEnds(cls, t, S) == RepEnds(cls, 1, Len(t), t, S)

\* x?
OptEnds(lit, t, S) == S \cup LitEnds(lit, t, S)

Min(S) == CHOOSE x \in S : \A y \in S : x <= y

Max(S) == CHOOSE x \in S : \A y \in S : x >= y

(***************************************************************************)
(* The words of the planner's patterns                                     *)
(***************************************************************************)
Word ==
  [revenue |-> <<"r","e","v","e","n","u","e">>,
   budget |-> <<"b","u","d","g","e","t">>,
   vs |-> <<"v","s">>,
   gross |-> <<"g","r","o","s","s">>,
   margin |-> <<"m","a","r","g","i","n">>,
   trend |-> <<"t","r","e","n","d">>,
   last |-> <<"l","a","s","t">>,
   month |-> <<"m","o","n","t","h">>,
   months |-> <<"m","o","n","t","h","s">>,
   opex |-> <<"o","p","e","x">>,
   operating |-> <<"o","p","e","r","a","t","i","n","g">>,
   expenses |-> <<"e","x","p","e","n","s","e","s">>,
   break |-> <<"b","r","e","a","k">>,
   down |-> <<"d","o","w","n">>,
   breakdown |-> <<"b","r","e","a","k","d","o","w","n">>,
   cash |-> <<"c","a","s","h">>,
   runway |-> <<"r","u","n","w","a","y">>,
   y20 |-> <<"2","0">>]

\* the dict, in insertion order (the order its items() are iterated in)
MONTH_ALIASES ==
  << <<<<"j","a","n">>, 1>>, <<<<"j","a","n","u","a","r","y">>, 1>>, <<<<"f","e","b">>, 2>>, <<<<"f","e","b","r","u","a","r","y">>, 2>>,
     <<<<"m","a","r">>, 3>>, <<<<"m","a","r","c","h">>, 3>>, <<<<"a","p","r">>, 4>>, <<<<"a","p","r","i","l">>, 4>>,
     <<<<"m","a","y">>, 5>>,
     <<<<"j","u","n">>, 6>>, <<<<"j","u","n","e">>, 6>>, <<<<"j","u","l">>, 7>>, <<<<"j","u","l","y">>, 7>>,
     <<<<"a","u","g">>, 8>>, <<<<"a","u","g","u","s","t">>, 8>>,
     <<<<"s","e","p">>, 9>>, <<<<"s","e","p","t">>, 9>>, <<<<"s","e","p","t","e","m","b","e","r">>, 9>>,
     <<<<"o","c","t">>, 10>>, <<<<"o","c","t","o","b","e","r">>, 10>>, <<<<"n","o","v">>, 11>>, <<<<"n","o","v","e","m","b","e","r">>, 11>>,
     <<<<"d","e","c">>, 12>>, <<<<"d","e","c","e","m","b","e","r">>, 12>> >>

\* MONTH_ALIASES[key]
AliasValue(key) ==
  MONTH_ALIASES[CHOOSE i \in DOMAIN MONTH_ALIASES : MONTH_ALIASES[i][1] = key][2]

\* the alternatives of the month group of the "June 2025" pattern, in order:
\* jan(?:uary)? | feb(?:ruary)? | ... | sep(?:t(?:ember)?)? | ... | dec(?:ember)?
MonthAlternatives ==
  << {<<"j","a","n">>, <<"j","a","n","u","a","r","y">>}, {<<"f","e","b">>, <<"f","e","b","r","u","a","r","y">>}, {<<"m","a","r">>, <<"m","a","r","c","h">>}, {<<"a","p","r">>, <<"a","p","r","i","l">>},
     {<<"m","a","y">>}, {<<"j","u","n">>, <<"j","u","n","e">>}, {<<"j","u","l">>, <<"j","u","l","y">>}, {<<"a","u","g">>, <<"a","u","g","u","s","t">>},
     {<<"s","e","p">>, <<"s","e","p","t">>, <<"s","e","p","t","e","m","b","e","r">>}, {<<"o","c","t">>, <<"o","c","t","o","b","e","r">>}, {<<"n","o","v">>, <<"n","o","v","e","m","b","e","r">>},
     {<<"d","e","c">>, <<"d","e","c","e","m","b","e","r">>} >>

MonthForms == UNION Range(MonthAlternatives)

\* the letters a month name starts with: a match of the month group starts
\* with one of them
MonthInitials == {form[1] : form \in MonthForms}

(***************************************************************************)
(* agent/planner.py: parameter extraction                                  *)
(***************************************************************************)
\* the ends of (month)\s+(20\d{2}) for the matches that start in S
MonthEnds(t, S) == UNION {LitEnds(form, t, S) : form \in MonthForms}

MonthYearEnds(t, S) ==
  RepEnds(DigitClass, 2, 2, t,
    LitEnds(Word.y20, t,
      PlusEnds(SpaceClass, t,
        MonthEnds(t, {s \in S : s <= Len(t) /\ t[s] \in MonthInitials}))))

\* the ends of (20\d{2})[-/](\d{1,2}) for the matches that start in S
YearMonthEnds(t, S) ==
  RepEnds(DigitClass, 1, 2, t,
    LitEnds(<<"-">>, t, RepEnds(DigitClass, 2, 2, t, LitEnds(Word.y20, t, S)))
    \cup LitEnds(<<"/">>, t, RepEnds(DigitClass, 2, 2, t, LitEnds(Word.y20, t, S))))

\* the positions where a match of the pattern starts (re.search takes the
\* leftmost): none when no match ends anywhere
MonthYearStarts(t) ==
  IF MonthYearEnds(t, Positions(t)) = {} THEN {}
  ELSE {i \in Positions(t) : MonthYearEnds(t, {i}) # {}}

YearMonthStarts(t) ==
  IF YearMonthEnds(t, Positions(t)) = {} THEN {}
  ELSE {i \in Positions(t) : YearMonthEnds(t, {i}) # {}}

\* re.search(rf"\b{k}\b", text): k starts and ends with a letter, so \b asks
\* for no word character on either side; starts are the positions with no
\* word character before them
WordStarts(t) == {i \in 1..Len(t) : i = 1 \/ ~IsWord(t[i - 1])}

WordSearch(k, t, starts) ==
  \E i \in starts :
    /\ MatchAt(k, t, i)
    /\ (i + Len(k) > Len(t) \/ ~IsWord(t[i + Len(k)]))

\* the first key of MONTH_ALIASES, in dict order, found as a word in the text
FirstAlias(t) ==
  LET starts == WordStarts(t)
      hits == {n \in DOMAIN MONTH_ALIASES : WordSearch(MONTH_ALIASES[n][1], t, starts)}
  IN  IF hits = {} THEN 0 ELSE Min(hits)

Truthy(x) == x # NoneInt /\ x # 0

_parse_month_year_swapped(text0, fb) ==
  LET text == Lower(text0)
      mS == MonthYearStarts(text)
      m2S == YearMonthStarts(text)
      n == FirstAlias(text)
  IN  IF m2S # {} THEN
        LET i == Min(m2S)
            e == Max(YearMonthEnds(text, {i}))
        IN  <<ToInt(SubSeq(text, i, i + 3)), ToInt(SubSeq(text, i + 5, e - 1))>>
      ELSE IF mS # {} THEN
        LET i == Min(mS)
            e == Max(MonthYearEnds(text, {i}))
        IN  <<ToInt(SubSeq(text, e - 4, e - 1)), AliasValue(SubSeq(text, i, i + 2))>>
      ELSE IF n # 0 THEN
        LET year == IF Truthy(fb) THEN fb ELSE NoneInt
        IN  IF Truthy(year) THEN <<year, MONTH_ALIASES[n][2]>> ELSE <<NoneInt, MONTH_ALIASES[n][2]>>
      ELSE <<fb, NoneInt>>

\* _parse_month_year(text, fallback) -> (year, month)
_parse_month_year(text0, fb) ==
  LET text == Lower(text0)
      \* re.search returns the leftmost match
      mS == MonthYearStarts(text)
      m2S == YearMonthStarts(text)
      n == FirstAlias(text)
  IN  IF mS # {} THEN
        LET i == Min(mS)
            e == Max(MonthYearEnds(text, {i}))
            \* m.group(1)[:3] and m.group(2)
        IN  <<ToInt(SubSeq(text, e - 4, e - 1)), AliasValue(SubSeq(text, i, i + 2))>>
      ELSE IF m2S # {} THEN
        LET i == Min(m2S)
            \* \d{1,2} is greedy
            e == Max(YearMonthEnds(text, {i}))
        IN  <<ToInt(SubSeq(text, i, i + 3)), ToInt(SubSeq(text, i + 5, e - 1))>>
      ELSE IF n # 0 THEN
        LET year == IF Truthy(fb) THEN fb ELSE NoneInt
        IN  IF Truthy(year) THEN <<year, MONTH_ALIASES[n][2]>> ELSE <<NoneInt, MONTH_ALIASES[n][2]>>
      ELSE <<fb, NoneInt>>

\* the ends of last\s+(\d{1,2})\s+months? with exactly d digits in the group
WindowEnds(t, S, d) ==
  OptEnds(<<"s">>, t,
    LitEnds(Word.month, t,
      PlusEnds(SpaceClass, t,
        RepEnds(DigitClass, d, d, t,
          PlusEnds(SpaceClass, t, LitEnds(Word.last, t, S))))))

\* _parse_window(text, default_last_n); the caller passes lower-cased text and
\* the pattern is case-insensitive
WindowStarts(t) ==
  IF WindowEnds(t, Positions(t), 1) \cup WindowEnds(t, Positions(t), 2) = {} THEN {}
  ELSE {i \in Positions(t) : \E d \in 1..2 : WindowEnds(t, {i}, d) # {}}

_parse_window(text0, default_last_n) ==
  LET text == Lower(text0)
      mS == WindowStarts(text)
  IN  IF mS # {} THEN
        LET i == Min(mS)
            d == Max({c \in 1..2 : WindowEnds(text, {i}, c) # {}})
            p == Min(RepEnds(DigitClass, d, d, text, PlusEnds(SpaceClass, text, LitEnds(Word.last, text, {i}))))
        IN  ToInt(SubSeq(text, p - d, p - 1))
      ELSE default_last_n

(***************************************************************************)
(* agent/planner.py: the intent patterns of plan_and_execute               *)
(***************************************************************************)
MatchesRevenueVsBudgetOneWay(ql) ==
  LET All == Positions(ql)
  IN  LitEnds(Word.budget, ql, StarEnds(DotClass, ql, LitEnds(Word.revenue, ql, All))) # {}

\* revenue.*budget|vs\s*budget|budget.*revenue
MatchesRevenueVsBudget(ql) ==
  LET All == Positions(ql)
  IN  \/ LitEnds(Word.budget, ql, StarEnds(DotClass, ql, LitEnds(Word.revenue, ql, All))) # {}
      \/ LitEnds(Word.budget, ql, StarEnds(SpaceClass, ql, LitEnds(Word.vs, ql, All))) # {}
      \/ LitEnds(Word.revenue, ql, StarEnds(DotClass, ql, LitEnds(Word.budget, ql, All))) # {}

\* gross\s*margin  and  trend|last\s+\d+\s+months|last\s+months
MatchesGrossMarginTrend(ql) ==
  LET All == Positions(ql)
      afterLast == PlusEnds(SpaceClass, ql, LitEnds(Word.last, ql, All))
  IN  /\ LitEnds(Word.margin, ql, StarEnds(SpaceClass, ql, LitEnds(Word.gross, ql, All))) # {}
      /\ \/ LitEnds(Word.trend, ql, All) # {}
         \/ LitEnds(Word.months, ql, PlusEnds(SpaceClass, ql, PlusEnds(DigitClass, ql, afterLast))) # {}
         \/ LitEnds(Word.months, ql, afterLast) # {}

\* opex|operating\s+expenses  and  break\s*down|breakdown
MatchesOpexBreakdown(ql) ==
  LET All == Positions(ql)
  IN  /\ \/ LitEnds(Word.opex, ql, All) # {}
         \/ LitEnds(Word.expenses, ql, PlusEnds(SpaceClass, ql, LitEnds(Word.operating, ql, All))) # {}
      /\ \/ LitEnds(Word.down, ql, StarEnds(SpaceClass, ql, LitEnds(Word.break, ql, All))) # {}
         \/ LitEnds(Word.breakdown, ql, All) # {}

\* cash\s*runway|runway
MatchesCashRunway(ql) ==
  LET All == Positions(ql)
  IN  \/ LitEnds(Word.runway, ql, StarEnds(SpaceClass, ql, LitEnds(Word.cash, ql, All))) # {}
      \/ LitEnds(Word.runway, ql, All) # {}

(***************************************************************************)
(* Numbers                                                                 *)
(***************************************************************************)
\* a rate of 1.0, in the fixed-point unit of the rates
RateScale == 100

\* float('nan') and float('inf'), as fractions no quotient of the model equals
NaN == <<0, 0>>

Inf == <<1, 0>>

Abs(x) == IF x < 0 THEN -x ELSE x

RECURSIVE GCD(_, _)
GCD(a, b) == IF b = 0 THEN a ELSE GCD(b, a % b)

\* the quotient n / d (d # 0) as a fraction in lowest terms
Frac(n, d) ==
  LET g == GCD(Abs(n), Abs(d))
      sgn == IF d < 0 THEN -1 ELSE 1
  IN  <<sgn * (n \div g), sgn * (d \div g)>>

(***************************************************************************)
(* agent/tools.py: dates, currency normalization, account aggregation      *)
(***************************************************************************)
cRevenue == <<"r","e","v","e","n","u","e">>
cTotalRevenue == <<"t","o","t","a","l"," ","r","e","v","e","n","u","e">>
cCogs == <<"c","o","g","s">>
cCostOfGoodsSold == <<"c","o","s","t"," ","o","f"," ","g","o","o","d","s"," ","s","o","l","d">>
cOpexPrefix == <<"o","p","e","x",":">>

ACCOUNT_ALIASES ==
  [revenue |-> {cRevenue, cTotalRevenue},
   cogs |-> {cCogs, cCostOfGoodsSold},
   opex_prefix |-> cOpexPrefix]

\* str.startswith
StartsWith(t, prefix) == MatchAt(prefix, t, 1)

\* the characters of the model in code point order, for the order of strings
CodePoints ==
  <<"\t", "\n", "\r", " ", "%", "&", "-", ".", "/">> \o DigitChars \o <<":", "?">>
  \o UpperChars \o <<"_">> \o LowerChars

CodeOf == [c \in Range(CodePoints) |-> CHOOSE i \in DOMAIN CodePoints : CodePoints[i] = c]

CharCode(c) == CodeOf[c]

\* a < b for strings
StrLess(a, b) ==
  \E k \in 1..(Len(a) + 1) :
    /\ \A j \in 1..(k - 1) : j <= Len(b) /\ a[j] = b[j]
    /\ \/ k = Len(a) + 1 /\ Len(b) >= k
       \/ k <= Len(a) /\ k <= Len(b) /\ CharCode(a[k]) < CharCode(b[k])

\* .dt.to_period('M').dt.to_timestamp(): a date <<year, month, day>> truncated
\* to its month <<year, month>>
ToPeriod(date) == <<date[1], date[2]>>

PeriodLess(a, b) == a[1] < b[1] \/ (a[1] = b[1] /\ a[2] < b[2])

\* the periods of a set in chronological order (the sorted group keys)
Earliest(S) == CHOOSE x \in S : \A y \in S : x = y \/ PeriodLess(x, y)

RECURSIVE SortPeriods(_)
SortPeriods(S) == IF S = {} THEN <<>> ELSE <<Earliest(S)>> \o SortPeriods(S \ {Earliest(S)})

\* pd.Timestamp(year=year, month=month, day=1) raises ValueError unless the
\* month is a calendar month and the year is in the range of a Timestamp
ValueError == [raised |-> "ValueError"]

ValidTimestamp(year, month) ==
  /\ year \in 1678..2261
  /\ month \in 1..12

\* the row joined to its fx rows: one output row per rate, or one with the
\* missing rate that fillna turns to 1.0
Merged(r, rate) ==
  ("date" :> ToPeriod(r.date)) @@ ("rate_to_usd" :> rate)
  @@ ("amount_usd" :> r.amount * rate) @@ r

JoinRowNoDefault(r, hits) ==
  IF hits = <<>> THEN <<Merged(r, 0)>>
  ELSE [i \in DOMAIN hits |-> Merged(r, hits[i].rate_to_usd)]

JoinRow(r, hits) ==
  IF hits = <<>> THEN <<Merged(r, RateScale)>>
  ELSE [i \in DOMAIN hits |-> Merged(r, hits[i].rate_to_usd)]

MergeRow(r, fxc) ==
  JoinRow(r, SelectSeq(fxc, LAMBDA f : f.date = ToPeriod(r.date) /\ f.currency = r.currency))

RECURSIVE MergeRows(_, _)
MergeRows(df, fxc) ==
  IF df = <<>> THEN <<>> ELSE MergeRow(Head(df), fxc) \o MergeRows(Tail(df), fxc)

\* fxc['date'] = ...to_period('M').dt.to_timestamp()
FxPeriods(fx) == [i \in DOMAIN fx |-> [fx[i] EXCEPT !.date = ToPeriod(fx[i].date)]]

\* _merge_fx(df, fx)
_merge_fx(df, fx) == MergeRows(df, FxPeriods(fx))

\* _normalize_accounts(df)
_normalize_accounts(df) ==
  [i \in DOMAIN df |-> ("account_norm" :> Lower(df[i].account)) @@ df[i]]

Latest(ps) == CHOOSE x \in ps : \A y \in ps : x = y \/ PeriodLess(y, x)

\* latest_month_in_actuals(actuals): the latest period, or <<>> for None
latest_month_in_actuals(actuals) ==
  IF actuals = <<>> THEN <<>>
  ELSE Latest({ToPeriod(actuals[i].date) : i \in DOMAIN actuals})

\* df[...]['amount_usd'].sum(): 0 for no rows
RECURSIVE SumUsd(_)
SumUsd(df) == IF df = <<>> THEN 0 ELSE Head(df).amount_usd + SumUsd(Tail(df))

IsRevenue(r) == r.account_norm \in ACCOUNT_ALIASES.revenue

IsCogs(r) == r.account_norm \in ACCOUNT_ALIASES.cogs

IsOpex(r) == StartsWith(r.account_norm, ACCOUNT_ALIASES.opex_prefix)

\* _sum_by_account(df, year, month, account_key), for a (year, month) that
\* pd.Timestamp accepts; the callers model its ValueError
_sum_by_account(df, year, month, account_key) ==
  CASE account_key = "opex" ->
         SumUsd(SelectSeq(df, LAMBDA r : r.date = <<year, month>> /\ IsOpex(r)))
    [] account_key = "revenue" ->
         SumUsd(SelectSeq(df, LAMBDA r : r.date = <<year, month>> /\ IsRevenue(r)))
    [] account_key = "cogs" ->
         SumUsd(SelectSeq(df, LAMBDA r : r.date = <<year, month>> /\ IsCogs(r)))
    [] OTHER -> 0

\* dfa[mask].groupby('ym')['amount_usd'].sum(): the periods that have a row,
\* and the sum of a period
InGroup(key, r) ==
  CASE key = "revenue" -> IsRevenue(r)
    [] key = "cogs" -> IsCogs(r)
    [] key = "opex" -> IsOpex(r)

GroupPeriods(dfa, key) == {dfa[i].date : i \in {j \in DOMAIN dfa : InGroup(key, dfa[j])}}

GroupSum(dfa, key, ym) == SumUsd(SelectSeq(dfa, LAMBDA r : InGroup(key, r) /\ r.date = ym))

\* the value of a column at a period it may not have (NaN, filled with 0.0)
Filled(dfa, key, ym) ==
  IF ym \in GroupPeriods(dfa, key) THEN GroupSum(dfa, key, ym) ELSE 0

GmRowKeepZero(ym, revenue, cogs) ==
  [ym |-> ym, revenue |-> revenue, cogs |-> cogs, gm |-> revenue - cogs,
   gm_pct |-> IF revenue # 0 THEN Frac((revenue - cogs) * 100, revenue) ELSE <<0, 1>>]

\* s['gm'] and s['gm_pct'] of one period
GmRow(ym, revenue, cogs) ==
  [ym |-> ym, revenue |-> revenue, cogs |-> cogs, gm |-> revenue - cogs,
   gm_pct |-> IF revenue # 0 THEN Frac((revenue - cogs) * 100, revenue) ELSE NaN]

GmRows(dfa, idx) ==
  [i \in DOMAIN idx |-> GmRow(idx[i], Filled(dfa, "revenue", idx[i]), Filled(dfa, "cogs", idx[i]))]

\* _series_gm(dfa): the monthly series with revenue, cogs, gm, gm_pct
_series_gm(dfa) ==
  SelectSeq(GmRows(dfa, SortPeriods(GroupPeriods(dfa, "revenue") \cup GroupPeriods(dfa, "cogs"))),
            LAMBDA x : x.gm_pct # NaN)

\* the group keys (ym, account_norm) in sorted order
KeyLess(x, y) == PeriodLess(x[1], y[1]) \/ (x[1] = y[1] /\ StrLess(x[2], y[2]))

MinKey(S) == CHOOSE x \in S : \A y \in S : x = y \/ KeyLess(x, y)

RECURSIVE SortKeys(_)
SortKeys(S) == IF S = {} THEN <<>> ELSE <<MinKey(S)>> \o SortKeys(S \ {MinKey(S)})

OpexRows(dfa, keys) ==
  [i \in DOMAIN keys |->
    [ym |-> keys[i][1], account_norm |-> keys[i][2],
     amount_usd |-> SumUsd(SelectSeq(dfa, LAMBDA r : IsOpex(r) /\ r.date = keys[i][1]
                                                      /\ r.account_norm = keys[i][2]))]]

\* _series_opex(dfa): one row per (ym, account_norm) of the opex rows
_series_opex(dfa) ==
  OpexRows(dfa, SortKeys({<<dfa[i].date, dfa[i].account_norm>> :
                            i \in {j \in DOMAIN dfa : IsOpex(dfa[j])}}))

EbitdaRow(ym, revenue, cogs, opex) ==
  [ym |-> ym, revenue |-> revenue, cogs |-> cogs, opex |-> opex,
   ebitda |-> revenue - cogs - opex]

EbitdaRows(dfa, idx) ==
  [i \in DOMAIN idx |->
    EbitdaRow(idx[i], Filled(dfa, "revenue", idx[i]), Filled(dfa, "cogs", idx[i]),
              Filled(dfa, "opex", idx[i]))]

\* _series_ebitda(dfa)
_series_ebitda(dfa) ==
  EbitdaRows(dfa, SortPeriods(GroupPeriods(dfa, "revenue") \cup GroupPeriods(dfa, "cogs")
                              \cup GroupPeriods(dfa, "opex")))

\* DataFrame.tail(n)
tail(s, n) ==
  IF n = 0 THEN <<>>
  ELSE IF n > 0 THEN SubSeq(s, Max({1, Len(s) - n + 1}), Len(s))
  ELSE SubSeq(s, Min({Len(s), -n}) + 1, Len(s))

\* DataFrame.head(n), n >= 0
head(s, n) == SubSeq(s, 1, Min({n, Len(s)}))

(***************************************************************************)
(* agent/tools.py: the metric engine.  A chart is the figure, with the     *)
(* traces added to it.                                                     *)
(***************************************************************************)
Figure(traces) == [traces |-> traces]

VarianceDictNaN(a, b, variance_pct) ==
  [actual_usd |-> a, budget_usd |-> b, variance_usd |-> a - b,
   variance_pct |-> variance_pct,
   chart |-> Figure(<<[type |-> "bar", x |-> <<"Actual", "Budget">>, y |-> <<a, b>>]>>)]

\* the returned dict: a NaN variance_pct is returned as 0.0
VarianceDict(a, b, variance_pct) ==
  [actual_usd |-> a, budget_usd |-> b, variance_usd |-> a - b,
   variance_pct |-> IF variance_pct # NaN THEN variance_pct ELSE <<0, 1>>,
   chart |-> Figure(<<[type |-> "bar", x |-> <<"Actual", "Budget">>, y |-> <<a, b>>]>>)]

\* variance = a - b; variance_pct = (variance / b * 100.0) if b != 0 else np.nan
VarianceResult(a, b) ==
  VarianceDict(a, b, IF b # 0 THEN Frac((a - b) * 100, b) ELSE NaN)

\* revenue_vs_budget_usd(dfs, year, month)
revenue_vs_budget_usd(d, year, month) ==
  IF ~ValidTimestamp(year, month) THEN ValueError
  ELSE VarianceResult(
         _sum_by_account(_normalize_accounts(_merge_fx(d.actuals, d.fx)), year, month, "revenue"),
         _sum_by_account(_normalize_accounts(_merge_fx(d.budget, d.fx)), year, month, "revenue"))

\* d.strftime('%Y-%m') of a period
strftime(ym) ==
  <<DigitChars[((ym[1] \div 1000) % 10) + 1], DigitChars[((ym[1] \div 100) % 10) + 1],
    DigitChars[((ym[1] \div 10) % 10) + 1], DigitChars[(ym[1] % 10) + 1], "-",
    DigitChars[(ym[2] \div 10) + 1], DigitChars[(ym[2] % 10) + 1]>>

TrendResult(s) ==
  [chart |-> Figure(<<[type |-> "scatter", x |-> [i \in DOMAIN s |-> s[i].ym],
                       y |-> [i \in DOMAIN s |-> s[i].gm_pct]]>>),
   series |-> [i \in DOMAIN s |-> [period |-> strftime(s[i].ym), gm_pct |-> s[i].gm_pct]]]

\* gross_margin_trend_pct(dfs, last_n)
gross_margin_trend_pct(d, last_n) ==
  TrendResult(tail(_series_gm(_normalize_accounts(_merge_fx(d.actuals, d.fx))), last_n))

\* str.replace(old, '', regex=False): every occurrence, left to right
RECURSIVE Remove(_, _)
Remove(t, old) ==
  IF t = <<>> THEN <<>>
  ELSE IF MatchAt(old, t, 1) THEN Remove(SubSeq(t, Len(old) + 1, Len(t)), old)
  ELSE <<Head(t)>> \o Remove(Tail(t), old)

\* the figure of the rows m of the period
PieOf(m) ==
  [chart |-> Figure(IF m # <<>>
                    THEN <<[type |-> "pie",
                            labels |-> [i \in DOMAIN m |-> Upper(Remove(m[i].account_norm, cOpexPrefix))],
                            values |-> [i \in DOMAIN m |-> m[i].amount_usd]]>>
                    ELSE <<>>)]

\* opex_breakdown_usd(dfs, year, month)
opex_breakdown_usd(d, year, month) ==
  IF ~ValidTimestamp(year, month) THEN ValueError
  ELSE PieOf(SelectSeq(_series_opex(_normalize_accounts(_merge_fx(d.actuals, d.fx))),
                       LAMBDA x : x.ym = <<year, month>>))

RECURSIVE SumEbitda(_)
SumEbitda(e) == IF e = <<>> THEN 0 ELSE Head(e).ebitda + SumEbitda(Tail(e))

CashTotals(cash, ds) ==
  [i \in DOMAIN ds |->
    [date |-> ds[i], amount_usd |-> SumUsd(SelectSeq(cash, LAMBDA r : r.date = ds[i]))]]

TotalCashFirst(cash) == CashTotals(cash, head(SortPeriods({cash[i].date : i \in DOMAIN cash}), 1))

\* cash.groupby('date')['amount_usd'].sum().sort_index().tail(1)
TotalCash(cash) == CashTotals(cash, tail(SortPeriods({cash[i].date : i \in DOMAIN cash}), 1))

\* cash.rename(columns={'cash': 'amount'})
RenameCash(cash) ==
  [i \in DOMAIN cash |->
    [date |-> cash[i].date, currency |-> cash[i].currency, amount |-> cash[i].cash]]

\* months and the returned dict, from the trailing EBITDA, the average burn
\* (a fraction), the merged cash rows and the cash of the latest period
RunwayResult(e, avg_burn, cash, total_cash, cash_usd) ==
  [months |-> IF avg_burn[1] <= 0 THEN Inf ELSE Frac(cash_usd * avg_burn[2], avg_burn[1]),
   cash_usd |-> cash_usd,
   avg_burn_usd |-> avg_burn,
   chart |-> Figure(<<[type |-> "bar", x |-> [i \in DOMAIN e |-> e[i].ym],
                       y |-> [i \in DOMAIN e |-> e[i].ebitda]]>>
                    \o (IF cash # <<>>
                        THEN <<[type |-> "scatter",
                                x |-> [i \in DOMAIN total_cash |-> total_cash[i].date],
                                y |-> [i \in DOMAIN total_cash |-> total_cash[i].amount_usd]]>>
                        ELSE <<>>))]

RunwayOfCash(e, cash, total_cash) ==
  RunwayResult(e, Frac(-SumEbitda(e), Len(e)), cash, total_cash,
               IF total_cash # <<>> THEN total_cash[1].amount_usd ELSE 0)

RunwayOfNoSentinel(e, cash) ==
  IF e = <<>>
  THEN [months |-> <<0, 1>>, cash_usd |-> 0, avg_burn_usd |-> <<0, 1>>, chart |-> Figure(<<>>)]
  ELSE RunwayOfCash(e, cash, TotalCash(cash))

RunwayOf(e, cash) ==
  IF e = <<>> THEN None ELSE RunwayOfCash(e, cash, TotalCash(cash))

\* cash_runway_months(dfs): None, or months (a fraction, or inf), cash_usd and
\* avg_burn_usd (a fraction)
cash_runway_months(d) ==
  RunwayOf(tail(_series_ebitda(_normalize_accounts(_merge_fx(d.actuals, d.fx))), 3),
           _merge_fx(RenameCash(d.cash), d.fx))

(***************************************************************************)
(* agent/planner.py: plan_and_execute.  The answer is the returned dict,   *)
(* its text given as the message and the values formatted into it; log is  *)
(* the list of the metric functions called, in order.                      *)
(***************************************************************************)
Answer(text, chart, log) == [ret |-> [text |-> text, chart |-> chart], log |-> log]

Raise(exc, log) == [ret |-> exc, log |-> log]

RevenueVsBudgetAnswer(year, month, res) ==
  IF res = ValueError
  THEN Raise(ValueError, <<[fn |-> "revenue_vs_budget_usd", year |-> year, month |-> month]>>)
  ELSE Answer([msg |-> "Revenue vs Budget", year |-> year, month |-> month,
               actual_usd |-> res.actual_usd, budget_usd |-> res.budget_usd,
               variance_usd |-> res.variance_usd, variance_pct |-> res.variance_pct],
              res.chart, <<[fn |-> "revenue_vs_budget_usd", year |-> year, month |-> month]>>)

RevenueVsBudgetForMonthOnly(d, year, month) ==
  IF month = NoneInt
  THEN Answer([msg |-> "Please include a month and year (e.g., 'June 2025')."], None, <<>>)
  ELSE RevenueVsBudgetAnswer(year, month, revenue_vs_budget_usd(d, year, month))

RevenueVsBudgetFor(d, year, month) ==
  IF month = NoneInt \/ year = NoneInt
  THEN Answer([msg |-> "Please include a month and year (e.g., 'June 2025')."], None, <<>>)
  ELSE RevenueVsBudgetAnswer(year, month, revenue_vs_budget_usd(d, year, month))

RevenueVsBudgetAt(d, ym) == RevenueVsBudgetFor(d, ym[1], ym[2])

\* the branch of the revenue vs budget intent
RevenueVsBudgetIntent(ql, d, default_year) ==
  RevenueVsBudgetAt(d, _parse_month_year(ql, default_year))

GrossMarginTrendAnswer(n, res) ==
  Answer([msg |-> "Gross Margin % for last n months", n |-> n, series |-> res.series],
         res.chart, <<[fn |-> "gross_margin_trend_pct", last_n |-> n]>>)

GrossMarginTrendFor(d, n) == GrossMarginTrendAnswer(n, gross_margin_trend_pct(d, n))

\* the branch of the gross margin trend intent
GrossMarginTrendIntent(ql, d) == GrossMarginTrendFor(d, _parse_window(ql, 3))

OpexBreakdownAnswer(year, month, res) ==
  IF res = ValueError
  THEN Raise(ValueError, <<[fn |-> "opex_breakdown_usd", year |-> year, month |-> month]>>)
  ELSE Answer([msg |-> "Opex breakdown", year |-> year, month |-> month],
              res.chart, <<[fn |-> "opex_breakdown_usd", year |-> year, month |-> month]>>)

OpexBreakdownFor(d, year, month) ==
  IF month = NoneInt \/ year = NoneInt
  THEN Answer([msg |-> "Please include a month and year for the Opex breakdown."], None, <<>>)
  ELSE OpexBreakdownAnswer(year, month, opex_breakdown_usd(d, year, month))

OpexBreakdownAt(d, ym) == OpexBreakdownFor(d, ym[1], ym[2])

\* the branch of the opex breakdown intent
OpexBreakdownIntent(ql, d, default_year) ==
  OpexBreakdownAt(d, _parse_month_year(ql, default_year))

CashRunwayAnswer(res) ==
  IF res = None
  THEN Answer([msg |-> "Not enough data to compute runway."], None, <<[fn |-> "cash_runway_months"]>>)
  ELSE Answer([msg |-> "Cash runway", months |-> res.months, cash_usd |-> res.cash_usd,
               avg_burn_usd |-> res.avg_burn_usd], res.chart, <<[fn |-> "cash_runway_months"]>>)

\* the branch of the cash runway intent
CashRunwayIntent(d) == CashRunwayAnswer(cash_runway_months(d))

Unclassified ==
  Answer([msg |-> "Sorry, I couldn't classify that question. Try: 'What was June 2025 revenue vs budget?'"],
         None, <<>>)

\* default_year = latest_ym.year if latest_ym is not None else None
DefaultYear(latest_ym) == IF latest_ym # <<>> THEN latest_ym[1] ELSE NoneInt

DispatchRunwayFirst(ql, d, default_year) ==
  IF MatchesCashRunway(ql) THEN CashRunwayIntent(d)
  ELSE IF MatchesRevenueVsBudget(ql) THEN RevenueVsBudgetIntent(ql, d, default_year)
  ELSE IF MatchesGrossMarginTrend(ql) THEN GrossMarginTrendIntent(ql, d)
  ELSE IF MatchesOpexBreakdown(ql) THEN OpexBreakdownIntent(ql, d, default_year)
  ELSE Unclassified

DispatchTrendLast(ql, d, default_year) ==
  IF MatchesRevenueVsBudget(ql) THEN RevenueVsBudgetIntent(ql, d, default_year)
  ELSE IF MatchesOpexBreakdown(ql) THEN OpexBreakdownIntent(ql, d, default_year)
  ELSE IF MatchesCashRunway(ql) THEN CashRunwayIntent(d)
  ELSE IF MatchesGrossMarginTrend(ql) THEN GrossMarginTrendIntent(ql, d)
  ELSE Unclassified

\* the ordered rules of plan_and_execute, on the lower-cased question
Dispatch(ql, d, default_year) ==
  IF MatchesRevenueVsBudget(ql) THEN RevenueVsBudgetIntent(ql, d, default_year)
  ELSE IF MatchesGrossMarginTrend(ql) THEN GrossMarginTrendIntent(ql, d)
  ELSE IF MatchesOpexBreakdown(ql) THEN OpexBreakdownIntent(ql, d, default_year)
  ELSE IF MatchesCashRunway(ql) THEN CashRunwayIntent(d)
  ELSE Unclassified

\* plan_and_execute(q, dfs)
plan_and_execute(question, d) ==
  Dispatch(Lower(question), d, DefaultYear(latest_month_in_actuals(d.actuals)))

(***************************************************************************)
(* Inputs.  A question is a concatenation of at most MaxFrags fragments; a *)
(* ledger, an fx table or a cash table is a sequence of rows of a small    *)
(* universe.                                                               *)
(***************************************************************************)
MaxFrags == 3

MaxRows == 3

MaxBudgetRows == 1

MaxFxRows == 2

MaxCashRows == 2

MaxLastN == 3

\* pieces of the questions typed
Frag ==
  [revenue |-> <<"r","e","v","e","n","u","e">>,
   budget |-> <<"b","u","d","g","e","t">>,
   vsBudget |-> <<"v","s"," ","b","u","d","g","e","t">>,
   grossMarginTrend |-> <<"G","r","o","s","s"," ","M","a","r","g","i","n"," ","t","r","e","n","d">>,
   grossMargin |-> <<"g","r","o","s","s"," ","m","a","r","g","i","n">>,
   last6Months |-> <<"l","a","s","t"," ","6"," ","m","o","n","t","h","s">>,
   opexBreakdown |-> <<"O","p","e","x"," ","b","r","e","a","k","d","o","w","n">>,
   runway |-> <<"r","u","n","w","a","y">>,
   june |-> <<"J","u","n","e">>,
   june2025 |-> <<"J","u","n","e"," ","2","0","2","5">>,
   badMonth |-> <<"2","0","2","5","-","1","3">>,
   space |-> <<" ">>,
   newline |-> <<"\n">>,
   showCashRunway |-> <<"S","h","o","w"," ","c","a","s","h"," ","r","u","n","w","a","y">>]

\* the fragments of the questions put to plan_and_execute
Fragments ==
  {Frag.revenue, Frag.budget, Frag.vsBudget, Frag.grossMarginTrend, Frag.grossMargin,
   Frag.last6Months, Frag.opexBreakdown, Frag.runway, Frag.june, Frag.june2025,
   Frag.badMonth, Frag.space, Frag.newline}

\* the fragments of the texts put to _parse_month_year
DateFragments == {Frag.june, Frag.space, <<"S","e","p","t">>, <<"m","a","y">>, <<"J","a","n"," ","2","0","2","4">>, <<"2","0","2","5">>, <<"2","0","2","5","-","0","6">>, <<"2","0","2","5","/","7">>, <<"1","9","9","9">>, <<"-">>, <<"f","o","r">>, <<"d","i","s">>}

RECURSIVE Concat(_)
Concat(fs) == IF fs = <<>> THEN <<>> ELSE Head(fs) \o Concat(Tail(fs))

Seqs(U, n) == UNION {[1..k -> U] : k \in 0..n}

Texts(F) == {Concat(fs) : fs \in Seqs(F, MaxFrags)}

\* account names as the ledgers spell them
Account ==
  [revenue |-> <<"R","e","v","e","n","u","e">>,
   revenueLower |-> <<"r","e","v","e","n","u","e">>,
   totalRevenue |-> <<"T","o","t","a","l"," ","R","e","v","e","n","u","e">>,
   cogs |-> <<"C","O","G","S">>,
   costOfGoodsSold |-> <<"C","o","s","t"," ","o","f"," ","G","o","o","d","s"," ","S","o","l","d">>,
   opexMarketing |-> <<"O","p","e","x",":","M","a","r","k","e","t","i","n","g">>,
   opexMarketingLower |-> <<"o","p","e","x",":","m","a","r","k","e","t","i","n","g">>,
   opexNested |-> <<"O","p","e","x",":","P","r","e","-","o","p","e","x",":","F","e","e","s">>,
   interest |-> <<"I","n","t","e","r","e","s","t">>]

Row(date, account, currency, amount) ==
  [date |-> date, account |-> account, currency |-> currency, amount |-> amount]

\* actuals rows: a period whose revenue sums to zero, revenue in two
\* currencies, a period with cogs only, one opex line in two spellings, an
\* opex line with the prefix inside its name, and an account of no category
LedgerRows ==
  {Row(<<2025, 4, 1>>, Account.revenue, "USD", 10),
   Row(<<2025, 4, 20>>, Account.revenueLower, "USD", 0 - 10),
   Row(<<2025, 5, 1>>, Account.totalRevenue, "EUR", 20),
   Row(<<2025, 6, 15>>, Account.revenue, "USD", 40),
   Row(<<2025, 5, 1>>, Account.cogs, "USD", 5),
   Row(<<2025, 7, 1>>, Account.costOfGoodsSold, "EUR", 30),
   Row(<<2025, 6, 1>>, Account.opexMarketing, "USD", 50),
   Row(<<2025, 6, 15>>, Account.opexMarketingLower, "EUR", 8),
   Row(<<2025, 6, 1>>, Account.opexNested, "USD", 3),
   Row(<<2025, 6, 1>>, Account.interest, "USD", 7)}

\* the rows of the ledgers put to the currency normalization
FxLedgerRows == {r \in LedgerRows : r.currency = "EUR" \/ r.date[2] = 4}

RevenueRows == {r \in LedgerRows : r.date[2] \in {4, 5} \/ r.account = Account.revenue}

BudgetRows ==
  {Row(<<2025, 4, 1>>, Account.revenue, "USD", 10),
   Row(<<2025, 5, 1>>, Account.revenue, "EUR", 25),
   Row(<<2025, 6, 1>>, Account.totalRevenue, "USD", 30),
   Row(<<2025, 6, 1>>, Account.cogs, "USD", 9)}

Fx(date, currency, rate) == [date |-> date, currency |-> currency, rate_to_usd |-> rate]

\* fx rows: two rates of one month and currency, and rates of other months
FxRows ==
  {Fx(<<2025, 5, 10>>, "EUR", 110), Fx(<<2025, 5, 25>>, "EUR", 120),
   Fx(<<2025, 6, 1>>, "EUR", 130), Fx(<<2025, 6, 1>>, "USD", 100),
   Fx(<<2025, 7, 1>>, "GBP", 125)}

\* fx tables with at most one rate per period and currency
FxTables ==
  {<<>>,
   <<Fx(<<2025, 5, 10>>, "EUR", 110)>>,
   <<Fx(<<2025, 6, 1>>, "EUR", 130), Fx(<<2025, 5, 10>>, "EUR", 110), Fx(<<2025, 7, 1>>, "EUR", 120)>>}

Cash(date, currency, cash) == [date |-> date, currency |-> currency, cash |-> cash]

\* cash rows: two periods, two currencies, an overdraft
CashRows ==
  {Cash(<<2025, 5, 1>>, "USD", 100), Cash(<<2025, 6, 20>>, "EUR", 10),
   Cash(<<2025, 6, 1>>, "USD", 0 - 70)}

Dfs(actuals, budget, fx, cash) ==
  [actuals |-> actuals, budget |-> budget, fx |-> fx, cash |-> cash]

\* the datasets the questions are put to: no data, a ledger of no category,
\* and a small complete set of books
PlanData ==
  {Dfs(<<>>, <<>>, <<>>, <<>>),
   Dfs(<<Row(<<2024, 12, 1>>, Account.interest, "USD", 7)>>, <<>>, <<>>,
       <<Cash(<<2024, 12, 1>>, "USD", 100)>>),
   Dfs(<<Row(<<2025, 5, 1>>, Account.revenue, "USD", 10), Row(<<2025, 6, 1>>, Account.revenue, "EUR", 20),
         Row(<<2025, 6, 1>>, Account.cogs, "USD", 5), Row(<<2025, 6, 1>>, Account.opexMarketing, "USD", 50)>>,
       <<Row(<<2025, 6, 1>>, Account.revenue, "USD", 25)>>,
       <<Fx(<<2025, 6, 1>>, "EUR", 110)>>,
       <<Cash(<<2025, 6, 1>>, "USD", 60)>>)}

\* the rows of the ledgers put to the cash runway
RunwayRows ==
  {Row(<<2025, 4, 1>>, Account.revenue, "USD", 10),
   Row(<<2025, 5, 1>>, Account.cogs, "USD", 5),
   Row(<<2025, 6, 15>>, Account.opexMarketingLower, "EUR", 8),
   Row(<<2025, 6, 1>>, Account.interest, "USD", 7)}

\* an earlier month, with a profit
History == <<Row(<<2025, 3, 1>>, Account.totalRevenue, "USD", 500)>>

(***************************************************************************)
(* State: the inputs (q, fallback, dfs), the call made (args), what it     *)
(* returned or raised (result) and the metric functions plan_and_execute   *)
(* called (calls).                                                         *)
(***************************************************************************)
InitWith(Q, F, D) ==
  /\ pc = "start"
  /\ q \in Q
  /\ fallback \in F
  /\ dfs \in D
  /\ args = [fn |-> "none"]
  /\ result = None
  /\ calls = <<>>

Return(a, r, log) ==
  /\ pc' = "done"
  /\ args' = a
  /\ result' = r
  /\ calls' = log
  /\ UNCHANGED <<q, fallback, dfs>>

\* res = plan_and_execute(q, dfs)
PlanAndExecute ==
  /\ pc = "start"
  /\ LET r == plan_and_execute(q, dfs)
     IN  Return([fn |-> "plan_and_execute"], r.ret, r.log)

\* _parse_month_year(q, fallback)
ParseMonthYear ==
  /\ pc = "start"
  /\ Return([fn |-> "_parse_month_year"], _parse_month_year(q, fallback), <<>>)

\* _merge_fx(dfs['actuals'], dfs['fx'])
MergeFx ==
  /\ pc = "start"
  /\ Return([fn |-> "_merge_fx"], _merge_fx(dfs.actuals, dfs.fx), <<>>)

\* revenue_vs_budget_usd(dfs, year, month)
RevenueVsBudget ==
  /\ pc = "start"
  /\ \E year \in {2025}, month \in {4, 5, 6} :
       Return([fn |-> "revenue_vs_budget_usd", year |-> year, month |-> month],
              revenue_vs_budget_usd(dfs, year, month), <<>>)

\* gross_margin_trend_pct(dfs, last_n)
GrossMarginTrend ==
  /\ pc = "start"
  /\ \E last_n \in 0..MaxLastN :
       Return([fn |-> "gross_margin_trend_pct", last_n |-> last_n],
              gross_margin_trend_pct(dfs, last_n), <<>>)

\* opex_breakdown_usd(dfs, year, month)
OpexBreakdown ==
  /\ pc = "start"
  /\ \E year \in {2025}, month \in {5, 6} :
       Return([fn |-> "opex_breakdown_usd", year |-> year, month |-> month],
              opex_breakdown_usd(dfs, year, month), <<>>)

\* cash_runway_months(dfs)
CashRunway ==
  /\ pc = "start"
  /\ Return([fn |-> "cash_runway_months"], cash_runway_months(dfs), <<>>)

\* questions put to the assistant
Init == InitWith(Texts(Fragments), {NoneInt}, PlanData)

Next == PlanAndExecute

Spec == Init /\ [][Next]_vars

\* texts put to the month and year extraction, with and without a fallback year
InitParse == InitWith(Texts(DateFragments), {NoneInt, 2031}, {Dfs(<<>>, <<>>, <<>>, <<>>)})

NextParse == ParseMonthYear

SpecParse == InitParse /\ [][NextParse]_vars

\* ledgers and fx tables put to the currency normalization; the fx tables may
\* hold several rates of one period and currency
InitFx ==
  InitWith({<<>>}, {NoneInt},
           {Dfs(a, <<>>, f, <<>>) : a \in Seqs(FxLedgerRows, MaxRows), f \in Seqs(FxRows, MaxFxRows)})

NextFx == MergeFx

SpecFx == InitFx /\ [][NextFx]_vars

\* ledgers of revenue and budget put to the variance
InitRevenue ==
  InitWith({<<>>}, {NoneInt},
           {Dfs(a, b, f, <<>>) : a \in Seqs(RevenueRows, MaxRows),
                                 b \in Seqs(BudgetRows, MaxBudgetRows), f \in FxTables})

NextRevenue == RevenueVsBudget

SpecRevenue == InitRevenue /\ [][NextRevenue]_vars

\* ledgers put to the gross margin trend and to the opex breakdown
InitLedger ==
  InitWith({<<>>}, {NoneInt}, {Dfs(a, <<>>, f, <<>>) : a \in Seqs(LedgerRows, MaxRows), f \in FxTables})

NextTrend == GrossMarginTrend

SpecTrend == InitLedger /\ [][NextTrend]_vars

NextOpex == OpexBreakdown

SpecOpex == InitLedger /\ [][NextOpex]_vars

\* books put to the cash runway, directly and by a runway question: ledgers
\* of up to MaxRows rows, alone or after an earlier profitable month
InitRunway ==
  InitWith({Frag.showCashRunway}, {NoneInt},
           {Dfs(h \o a, <<>>, f, c) : h \in {<<>>, History}, a \in Seqs(RunwayRows, MaxRows),
                                      f \in FxTables, c \in Seqs(CashRows, MaxCashRows)})

NextRunway == CashRunway \/ PlanAndExecute

SpecRunway == InitRunway /\ [][NextRunway]_vars

(***************************************************************************)
(* Properties of the month and year extraction                             *)
(***************************************************************************)
Parsed == pc = "done" /\ args.fn = "_parse_month_year"

\* the positions of the text where a year 20dd starts
YearStarts(t) ==
  {y \in 1..Len(t) : /\ y + 3 <= Len(t)
                     /\ t[y] = "2" /\ t[y + 1] = "0"
                     /\ t[y + 2] \in DigitSet /\ t[y + 3] \in DigitSet}

\* the (year, month) of every "month name, white space, 20dd" in the text
NamedMonthYears(t) ==
  {<<ToInt(SubSeq(t, ky[2], ky[2] + 3)), AliasValue(ky[1])>> :
     ky \in {ky \in MonthForms \X YearStarts(t) :
             \E i \in 1..Len(t) :
               /\ MatchAt(ky[1], t, i)
               /\ i + Len(ky[1]) < ky[2]
               /\ \A j \in (i + Len(ky[1]))..(ky[2] - 1) : t[j] \in SpaceSet}}

\* the (year, month) of every "20dd, - or /, one or two digits" in the text
NumericYearMonths(t) ==
  {<<ToInt(SubSeq(t, yn[1], yn[1] + 3)), ToInt(SubSeq(t, yn[1] + 5, yn[1] + 4 + yn[2]))>> :
     yn \in {yn \in YearStarts(t) \X (1..2) :
             /\ yn[1] + 4 + yn[2] <= Len(t)
             /\ t[yn[1] + 4] \in {"-", "/"}
             /\ \A j \in (yn[1] + 5)..(yn[1] + 4 + yn[2]) : t[j] \in DigitSet}}

\* the months named in the text by a word of their own
BareMonths(t) ==
  LET starts == {i \in 1..Len(t) : i = 1 \/ t[i - 1] \notin WordSet}
  IN  {MONTH_ALIASES[n][2] :
         n \in {n \in DOMAIN MONTH_ALIASES :
                 \E i \in starts :
                   /\ MatchAt(MONTH_ALIASES[n][1], t, i)
                   /\ (i + Len(MONTH_ALIASES[n][1]) > Len(t)
                       \/ t[i + Len(MONTH_ALIASES[n][1])] \notin WordSet)}}

\* C2: the period is resolved by the first of three forms that the text
\* holds: (a) a month name or abbreviation and a year 20dd give that year and
\* month; (b) YYYY-M or YYYY/M gives (YYYY, M); (c) a bare month name gives
\* the fallback year, or None when there is none, and that month.  A text that
\* holds no month in any form gives the month None.
C2_ParseMonthYearForms ==
  Parsed =>
    IF NamedMonthYears(Lower(q)) # {} THEN result \in NamedMonthYears(Lower(q))
    ELSE IF NumericYearMonths(Lower(q)) # {} THEN result \in NumericYearMonths(Lower(q))
    ELSE IF BareMonths(Lower(q)) # {}
         THEN result[1] = fallback /\ result[2] \in BareMonths(Lower(q))
    ELSE result[2] = NoneInt

\* a text that holds form (a) and form (b) is resolved by form (a)
C2_Witness ==
  /\ Parsed
  /\ NumericYearMonths(Lower(q)) # {}
  /\ result \in NamedMonthYears(Lower(q))
  /\ result \notin NumericYearMonths(Lower(q))

(***************************************************************************)
(* Properties of the question interpreter                                  *)
(***************************************************************************)
Asked == pc = "done" /\ args.fn = "plan_and_execute"

\* the rules of the interpreter that the question satisfies, by number
RulesMatched ==
  LET t == Lower(q)
  IN  {n \in 1..4 : \/ n = 1 /\ MatchesRevenueVsBudget(t)
                    \/ n = 2 /\ MatchesGrossMarginTrend(t)
                    \/ n = 3 /\ MatchesOpexBreakdown(t)
                    \/ n = 4 /\ MatchesCashRunway(t)}

\* the rule the answer comes from, read off the metric function called or,
\* when none was called, off the message; 0 for the unclassified answer
RuleServed ==
  IF calls # <<>>
  THEN CASE calls[1].fn = "revenue_vs_budget_usd" -> 1
         [] calls[1].fn = "gross_margin_trend_pct" -> 2
         [] calls[1].fn = "opex_breakdown_usd" -> 3
         [] calls[1].fn = "cash_runway_months" -> 4
  ELSE CASE result.text.msg = "Please include a month and year (e.g., 'June 2025')." -> 1
         [] result.text.msg = "Please include a month and year for the Opex breakdown." -> 3
         [] OTHER -> 0

\* C1: the answer comes from the first rule, in the order RevenueVsBudget,
\* GrossMarginTrend, OpexBreakdown, CashRunway, that the question satisfies,
\* never from a later one; a question that satisfies no rule gets the fixed
\* "couldn't classify" message, no chart, and no metric function is called.
C1_FirstMatchWins ==
  Asked =>
    /\ Len(calls) <= 1
    /\ IF RulesMatched = {}
       THEN /\ result = [text |-> [msg |-> "Sorry, I couldn't classify that question. Try: 'What was June 2025 revenue vs budget?'"],
                         chart |-> None]
            /\ calls = <<>>
       ELSE RuleServed = Min(RulesMatched)

\* a question that satisfies the second and the fourth rule, and no other, is
\* answered by the second
C1_Witness ==
  /\ Asked
  /\ RulesMatched = {2, 4}
  /\ RuleServed = 2

\* the year the interpreter falls back to: that of the latest actuals period
FallbackYear ==
  IF dfs.actuals = <<>> THEN NoneInt
  ELSE Max({dfs.actuals[i].date[1] : i \in DOMAIN dfs.actuals})

\* the question gives no month, or gives a bare month name only and the books
\* give no year to fall back to
PeriodUnresolved ==
  /\ NamedMonthYears(Lower(q)) = {}
  /\ NumericYearMonths(Lower(q)) = {}
  /\ BareMonths(Lower(q)) = {} \/ FallbackYear = NoneInt

\* C3: a RevenueVsBudget or OpexBreakdown question whose month or year cannot
\* be resolved from the text and the fallback year is answered by the prompt
\* for a month and year of its intent, with no chart; neither metric function
\* is called and nothing is raised.
C3_UnresolvedPeriodPrompts ==
  (/\ Asked
   /\ RulesMatched # {}
   /\ Min(RulesMatched) \in {1, 3}
   /\ PeriodUnresolved)
  => /\ calls = <<>>
     /\ result = [text |-> [msg |-> IF Min(RulesMatched) = 1
                                    THEN "Please include a month and year (e.g., 'June 2025')."
                                    ELSE "Please include a month and year for the Opex breakdown."],
                  chart |-> None]

\* a revenue vs budget question that names a bare month, put to books with no
\* actuals (no fallback year), is answered by the prompt
C3_Witness ==
  /\ Asked
  /\ Min(RulesMatched \cup {5}) = 1
  /\ PeriodUnresolved
  /\ BareMonths(Lower(q)) = {6}
  /\ result.chart = None
  /\ calls = <<>>

\* the positions where the word w starts in the text t
Occurrences(w, t) == {i \in 1..Len(t) : MatchAt(w, t, i)}

\* the word w occurs in the text t
Mentions(w, t) == Occurrences(w, t) # {}

\* first occurs in t and second occurs after it, with no line break between
SameLineThen(first, second, t) ==
  \E i \in Occurrences(first, t) :
    \E j \in Occurrences(second, t) :
      /\ i + Len(first) <= j
      /\ \A k \in (i + Len(first))..(j - 1) : t[k] # "\n"

\* "vs", any white space, "budget"
VsBudget(t) ==
  \E i \in Occurrences(Word.vs, t) :
    \E j \in Occurrences(Word.budget, t) :
      /\ i + 2 <= j
      /\ \A k \in (i + 2)..(j - 1) : t[k] \in SpaceSet

\* C10 as stated: a question is classified as RevenueVsBudget exactly when
\* its text mentions both revenue and budget, in either order; so never when
\* it does not mention revenue.
C10_AsStated ==
  Asked => (RuleServed = 1 <=> (Mentions(Word.revenue, Lower(q)) /\ Mentions(Word.budget, Lower(q))))

\* C10, amended: a question is classified as RevenueVsBudget exactly when its
\* lower-cased text holds "revenue" and after it, on the same line, "budget",
\* or "budget" and after it, on the same line, "revenue", or "vs", optional
\* white space and "budget"; a text that does not mention revenue is classified
\* as RevenueVsBudget exactly when it holds "vs budget".
C10_RevenueVsBudgetPattern ==
  Asked =>
    LET t == Lower(q)
    IN  /\ RuleServed = 1 <=> \/ SameLineThen(Word.revenue, Word.budget, t)
                              \/ SameLineThen(Word.budget, Word.revenue, t)
                              \/ VsBudget(t)
        /\ ~Mentions(Word.revenue, t) => (RuleServed = 1 <=> VsBudget(t))

\* a question that does not mention revenue is classified as RevenueVsBudget
C10_Witness ==
  /\ Asked
  /\ ~Mentions(Word.revenue, Lower(q))
  /\ RuleServed = 1

(***************************************************************************)
(* What the books say, stated on the input tables                          *)
(***************************************************************************)
\* the rate of a period and currency: that of the fx table, else 1.0
RateFor(fx, ym, currency) ==
  IF \E i \in DOMAIN fx : ToPeriod(fx[i].date) = ym /\ fx[i].currency = currency
  THEN fx[CHOOSE i \in DOMAIN fx : ToPeriod(fx[i].date) = ym /\ fx[i].currency = currency].rate_to_usd
  ELSE RateScale

AtMostOneRate(fx) ==
  \A i, j \in DOMAIN fx :
    (ToPeriod(fx[i].date) = ToPeriod(fx[j].date) /\ fx[i].currency = fx[j].currency) => i = j

\* the sum of v over the rows I
RECURSIVE SumOf(_, _)
SumOf(I, v) ==
  IF I = {} THEN 0
  ELSE LET i == CHOOSE j \in I : TRUE IN v[i] + SumOf(I \ {i}, v)

\* the normalized amounts of a ledger
Usd(ledger, fx) ==
  [i \in DOMAIN ledger |->
    ledger[i].amount * RateFor(fx, ToPeriod(ledger[i].date), ledger[i].currency)]

RevenueNames == {cRevenue, cTotalRevenue}

CogsNames == {cCogs, cCostOfGoodsSold}

IsOpexName(a) == Len(a) >= 5 /\ SubSeq(a, 1, 5) = cOpexPrefix

\* the lower-cased account name a is of the kind: revenue, cogs, opex, or any
\* of the three (the accounts of EBITDA)
OfKind(kind, a) ==
  \/ kind \in {"revenue", "ebitda"} /\ a \in RevenueNames
  \/ kind \in {"cogs", "ebitda"} /\ a \in CogsNames
  \/ kind \in {"opex", "ebitda"} /\ IsOpexName(a)

\* the normalized total of the rows of a period whose account is of the kind
TotalOf(ledger, fx, ym, kind) ==
  SumOf({i \in DOMAIN ledger : ToPeriod(ledger[i].date) = ym /\ OfKind(kind, Lower(ledger[i].account))},
        Usd(ledger, fx))

RevenueOf(ledger, fx, ym) == TotalOf(ledger, fx, ym, "revenue")

CogsOf(ledger, fx, ym) == TotalOf(ledger, fx, ym, "cogs")

OpexOf(ledger, fx, ym) == TotalOf(ledger, fx, ym, "opex")

\* the periods that have a row of the kind
PeriodsOf(ledger, kind) ==
  {ToPeriod(ledger[i].date) : i \in {j \in DOMAIN ledger : OfKind(kind, Lower(ledger[j].account))}}

\* the n latest periods of a set
LatestOf(S, n) == {x \in S : Cardinality({y \in S : PeriodLess(x, y)}) < n}

\* the fraction f is the quotient num / den, den # 0
IsQuotient(f, num, den) == f[2] > 0 /\ f[1] * den = num * f[2]

(***************************************************************************)
(* Properties of the currency normalization                                *)
(***************************************************************************)
\* C8: given an fx table with at most one rate per month and currency,
\* _merge_fx yields one output row per ledger row, in order, with amount_usd =
\* amount * rate, the rate being that of the row's calendar month and currency
\* or 1.0 when the table has none.
C8_MergeFxOneRowPerRow ==
  (pc = "done" /\ args.fn = "_merge_fx" /\ AtMostOneRate(dfs.fx)) =>
    /\ Len(result) = Len(dfs.actuals)
    /\ \A i \in DOMAIN dfs.actuals :
         /\ result[i].amount = dfs.actuals[i].amount
         /\ result[i].currency = dfs.actuals[i].currency
         /\ result[i].amount_usd = Usd(dfs.actuals, dfs.fx)[i]
         /\ (\A j \in DOMAIN dfs.fx :
               ~(ToPeriod(dfs.fx[j].date) = ToPeriod(dfs.actuals[i].date)
                 /\ dfs.fx[j].currency = dfs.actuals[i].currency))
            => result[i].amount_usd = dfs.actuals[i].amount * RateScale

\* a ledger with a row converted at the rate of its month, quoted on another
\* day of the month, and a row with no rate
C8_Witness ==
  /\ pc = "done" /\ args.fn = "_merge_fx" /\ AtMostOneRate(dfs.fx)
  /\ \E i \in DOMAIN dfs.actuals, j \in DOMAIN dfs.fx :
       /\ dfs.fx[j].date # dfs.actuals[i].date
       /\ ToPeriod(dfs.fx[j].date) = ToPeriod(dfs.actuals[i].date)
       /\ dfs.fx[j].currency = dfs.actuals[i].currency
       /\ result[i].amount_usd = dfs.actuals[i].amount * dfs.fx[j].rate_to_usd
       /\ dfs.fx[j].rate_to_usd # RateScale
  /\ \E i \in DOMAIN dfs.actuals :
       /\ dfs.actuals[i].currency = "EUR"
       /\ result[i].amount_usd = dfs.actuals[i].amount * RateScale

(***************************************************************************)
(* Properties of the metric engine                                         *)
(***************************************************************************)
Called(fn) == pc = "done" /\ args.fn = fn

\* C4: revenue_vs_budget_usd returns the normalized revenue total of the
\* period in the actuals and in the budget, their difference, and the
\* difference as a percentage of the budget, or exactly 0 when the budget is 0;
\* a period with no matching rows has the total 0 and raises nothing.
C4_RevenueVsBudget ==
  Called("revenue_vs_budget_usd") =>
    /\ result # ValueError
    /\ result.actual_usd = RevenueOf(dfs.actuals, dfs.fx, <<args.year, args.month>>)
    /\ result.budget_usd = RevenueOf(dfs.budget, dfs.fx, <<args.year, args.month>>)
    /\ result.variance_usd = result.actual_usd - result.budget_usd
    /\ IF result.budget_usd # 0
       THEN IsQuotient(result.variance_pct, result.variance_usd * 100, result.budget_usd)
       ELSE result.variance_pct = <<0, 1>>

\* a period with revenue and no budget: the percentage is 0
C4_Witness ==
  /\ Called("revenue_vs_budget_usd")
  /\ result.actual_usd # 0
  /\ result.budget_usd = 0
  /\ result.variance_pct = <<0, 1>>
  /\ dfs.budget # <<>>

\* the periods of the ledger with a non-zero revenue total
RevenuePeriods ==
  {ym \in PeriodsOf(dfs.actuals, "revenue") :
     RevenueOf(dfs.actuals, dfs.fx, ym) # 0}

\* C5: gross_margin_trend_pct(dfs, N) returns, in chronological order, the
\* N most recent periods with a non-zero revenue total (all of them when
\* there are fewer than N), so no period of revenue 0 and at most N periods;
\* the gm_pct of an entry is (revenue - cogs) / revenue * 100 of its period.
C5_GrossMarginTrend ==
  Called("gross_margin_trend_pct") =>
    /\ Len(result.series) <= args.last_n
    /\ Len(result.series) = Cardinality(LatestOf(RevenuePeriods, args.last_n))
    /\ \A i, j \in DOMAIN result.series :
         i < j => StrLess(result.series[i].period, result.series[j].period)
    /\ \A i \in DOMAIN result.series :
         \E ym \in LatestOf(RevenuePeriods, args.last_n) :
           /\ result.series[i].period = strftime(ym)
           /\ IsQuotient(result.series[i].gm_pct,
                         (RevenueOf(dfs.actuals, dfs.fx, ym) - CogsOf(dfs.actuals, dfs.fx, ym)) * 100,
                         RevenueOf(dfs.actuals, dfs.fx, ym))

\* three periods with revenue, the two latest of them returned
C5_Witness ==
  /\ Called("gross_margin_trend_pct")
  /\ args.last_n = 2
  /\ Cardinality(RevenuePeriods) = 3
  /\ Len(result.series) = 2
  /\ result.series[2].period = <<"2", "0", "2", "5", "-", "0", "6">>

\* the opex line items of the period asked for
OpexItems ==
  {Lower(dfs.actuals[i].account) :
     i \in {j \in DOMAIN dfs.actuals : /\ ToPeriod(dfs.actuals[j].date) = <<args.year, args.month>>
                                       /\ IsOpexName(Lower(dfs.actuals[j].account))}}

\* the normalized total of a line item in the period asked for
ItemTotal(k) ==
  SumOf({i \in DOMAIN dfs.actuals : /\ ToPeriod(dfs.actuals[i].date) = <<args.year, args.month>>
                                    /\ Lower(dfs.actuals[i].account) = k},
        Usd(dfs.actuals, dfs.fx))

\* the slices of the pie, as (label, value)
Slices ==
  IF result.chart.traces = <<>> THEN {}
  ELSE {<<result.chart.traces[1].labels[i], result.chart.traces[1].values[i]>> :
          i \in DOMAIN result.chart.traces[1].labels}

SliceCount ==
  IF result.chart.traces = <<>> THEN 0 ELSE Len(result.chart.traces[1].labels)

\* C9: opex_breakdown_usd makes a pie with one slice per opex line item of
\* the period, its value the normalized total of the item's rows and its label
\* the upper-cased account name after the leading "opex:"; rows of other
\* accounts are in no slice, and a period with no opex rows has a chart with no
\* slices, nothing raised.
C9_AsStated ==
  Called("opex_breakdown_usd") =>
    /\ result # ValueError
    /\ SliceCount = Cardinality(OpexItems)
    /\ Slices = {<<Upper(SubSeq(k, 6, Len(k))),
                   ItemTotal(k)>> :
                 k \in OpexItems}

\* the periods with an EBITDA figure
EbitdaPeriods ==
  PeriodsOf(dfs.actuals, "ebitda")

EbitdaOf(ym) ==
  RevenueOf(dfs.actuals, dfs.fx, ym) - CogsOf(dfs.actuals, dfs.fx, ym)
  - OpexOf(dfs.actuals, dfs.fx, ym)

Trailing == LatestOf(EbitdaPeriods, 3)

RECURSIVE SumEbitdaOf(_)
SumEbitdaOf(S) ==
  IF S = {} THEN 0
  ELSE LET ym == CHOOSE x \in S : TRUE IN EbitdaOf(ym) + SumEbitdaOf(S \ {ym})

\* the normalized cash of the latest period of the cash data, 0 for no data
LatestCash ==
  SumOf({i \in DOMAIN dfs.cash :
           ToPeriod(dfs.cash[i].date) \in LatestOf({ToPeriod(dfs.cash[j].date) : j \in DOMAIN dfs.cash}, 1)},
        [i \in DOMAIN dfs.cash |->
          dfs.cash[i].cash * RateFor(dfs.fx, ToPeriod(dfs.cash[i].date), dfs.cash[i].currency)])

\* what C6 says of the runway but for the sign of the months
RunwayAsComputed ==
  /\ result # None
  /\ result.cash_usd = LatestCash
  /\ IF SumEbitdaOf(Trailing) >= 0
     THEN result.months = Inf
     ELSE /\ IsQuotient(result.avg_burn_usd, 0 - SumEbitdaOf(Trailing), Cardinality(Trailing))
          /\ IsQuotient(result.months, LatestCash * Cardinality(Trailing), 0 - SumEbitdaOf(Trailing))

\* C6 as stated: with an EBITDA period, cash_runway_months returns the
\* infinite runway when the mean EBITDA of the trailing (at most 3) periods is
\* >= 0, and otherwise a finite, strictly positive number of months, cash_usd /
\* avg_burn, avg_burn being minus that mean and cash_usd the normalized cash of
\* the latest period of the cash data.
C6_AsStated ==
  (Called("cash_runway_months") /\ EbitdaPeriods # {}) =>
    /\ RunwayAsComputed
    /\ SumEbitdaOf(Trailing) < 0 => result.months[1] > 0

\* C6, amended: with an EBITDA period, cash_runway_months returns the
\* infinite runway when the mean EBITDA of the trailing (at most 3) periods is
\* >= 0, and otherwise the finite number of months cash_usd / avg_burn, which
\* is strictly positive exactly when cash_usd is, 0 when cash_usd is 0 (as for
\* empty cash data) and negative when cash_usd is negative.
C6_CashRunway ==
  (Called("cash_runway_months") /\ EbitdaPeriods # {}) =>
    /\ RunwayAsComputed
    /\ SumEbitdaOf(Trailing) < 0 =>
         /\ result.months[1] > 0 <=> LatestCash > 0
         /\ result.months[1] = 0 <=> LatestCash = 0

\* books that burn cash over the three latest of four periods, though not
\* over the four, with cash in two periods: a finite, positive runway
C6_Witness ==
  /\ Called("cash_runway_months")
  /\ Cardinality(EbitdaPeriods) = 4
  /\ SumEbitdaOf(EbitdaPeriods) > 0
  /\ SumEbitdaOf(Trailing) < 0
  /\ Cardinality({ToPeriod(dfs.cash[j].date) : j \in DOMAIN dfs.cash}) = 2
  /\ result.months # Inf
  /\ result.months[1] > 0

\* C7: when no period of the actuals has a revenue, cogs or opex row,
\* cash_runway_months returns None, which is no runway figure, and raises
\* nothing; plan_and_execute then answers a CashRunway question with the 'not
\* enough data' message and no chart.
C7_NoHistoryNoRunway ==
  (pc = "done" /\ EbitdaPeriods = {}) =>
    /\ args.fn = "cash_runway_months" => result = None
    /\ (args.fn = "plan_and_execute" /\ RulesMatched # {} /\ Min(RulesMatched) = 4) =>
         /\ result = [text |-> [msg |-> "Not enough data to compute runway."], chart |-> None]
         /\ calls = <<[fn |-> "cash_runway_months"]>>

\* a runway question put to books with cash and a ledger of no EBITDA account
C7_Witness ==
  /\ Asked
  /\ EbitdaPeriods = {}
  /\ dfs.actuals # <<>>
  /\ dfs.cash # <<>>
  /\ Min(RulesMatched \cup {5}) = 4
  /\ result.text.msg = "Not enough data to compute runway."

(***************************************************************************)
(* Overlap of the rules of the question interpreter                        *)
(***************************************************************************)
\* the orders in which the four rules could be evaluated
RuleOrders == {o \in [1..4 -> 1..4] : \A i, j \in 1..4 : o[i] = o[j] => i = j}

\* the order in which plan_and_execute evaluates them
CodeOrder == [n \in 1..4 |-> n]

\* the rule that classifies a text satisfying the rules S when the rules are
\* evaluated in the order o; 0 when it satisfies none
FirstIn(o, S) ==
  IF S = {} THEN 0 ELSE o[Min({i \in 1..4 : o[i] \in S})]

\* C11 as stated: the four rules are mutually exclusive, no question satisfies
\* the matching condition of more than one of them.
C11_AsStated ==
  Asked => Cardinality(RulesMatched) <= 1

\* C11, amended: the rules overlap; a question is classified by the first rule
\* it satisfies in the order RevenueVsBudget, GrossMarginTrend, OpexBreakdown,
\* CashRunway, and its classification is the same under every evaluation order
\* exactly when it satisfies at most one rule.
C11_OrderDecidesOverlap ==
  Asked =>
    LET S == RulesMatched
        served == RuleServed
    IN  /\ served = FirstIn(CodeOrder, S)
        /\ (\A o \in RuleOrders : FirstIn(o, S) = served) <=> Cardinality(S) <= 1

\* a question that satisfies the first and the fourth rule is answered by the
\* first, and would be answered by the fourth if that were evaluated first
C11_Witness ==
  /\ Asked
  /\ RulesMatched = {1, 4}
  /\ RuleServed = 1
  /\ \E o \in RuleOrders : FirstIn(o, RulesMatched) = 4

(***************************************************************************)
(* Periods passed to the metric functions                                  *)
(***************************************************************************)
\* the calls of the metric functions that take a year and a month
PeriodCalls ==
  {i \in DOMAIN calls : calls[i].fn \in {"revenue_vs_budget_usd", "opex_breakdown_usd"}}

\* C12 as stated: whenever plan_and_execute calls revenue_vs_budget_usd or
\* opex_breakdown_usd, the month passed is in 1..12 and the year is not None,
\* so that no question text makes the construction of the period fail.
C12_AsStated ==
  Asked =>
    /\ \A i \in PeriodCalls : calls[i].month \in 1..12 /\ calls[i].year # NoneInt
    /\ result # ValueError

====
